---- MODULE Spec2Model ----
(***************************************************************************)
(* A model of vbench/git.py: GitRepo (commit-log parsing, commit table,    *)
(* branch membership, get_commit_info) and BenchRepo (the benchmarking     *)
(* checkout that is cloned, cleaned, checked out and built per revision).  *)
(***************************************************************************)
EXTENDS Integers, Sequences, FiniteSets, TLC

(***************************************************************************)
(* Bounds of the model.                                                    *)
(***************************************************************************)
MaxCommits == 3
MaxTime == 3
MaxBranches == 2
MaxRevs == 2
MaxFields == 4

None == "None"

ShaPool == <<"a1f", "b2e", "c3d", "d4c", "e5b", "f6a">>
Shas == {ShaPool[i] : i \in 1..MaxCommits}
Idx(sha) == CHOOSE i \in 1..MaxCommits : ShaPool[i] = sha

BranchNames == {"master", "devel"}

\* A date as git prints it with --date=rfc2822: wall-clock seconds and the
\* zone offset; several strings denote the same instant.
RawStamps == {<<t, 0>> : t \in 1..MaxTime} \cup {<<2, 1>>}

Range(s) == {s[i] : i \in DOMAIN s}

RECURSIVE Reverse(_)
Reverse(s) == IF s = <<>> THEN <<>> ELSE Append(Reverse(Tail(s)), Head(s))

RECURSIVE Concat(_)
Concat(ss) == IF ss = <<>> THEN <<>> ELSE Head(ss) \o Concat(Tail(ss))

\* GitRepo: the repository read, the branches asked for, the locals of
\* _parse_commit_log, the table and the last lookup.
VARIABLES repo, branches, known_shas, commits, base_shas, sha_branches,
          table, info, pc

\* BenchRepo: the object and its configuration, the permanent directory
\* (target_dir), the staging directory (target_dir_tmp), the last call and
\* the revisions whose build failed since construction.
VARIABLES obj, cfg, target, tmp, call, failed

\* GitRepo.diff: the line of the numstat output read last and the two
\* dictionaries.
VARIABLES stdout_line, insertions, deletions

\* GitRepo._parse_commit_log_branch on the text of githist.txt: the log
\* that git writes out and what the parse of it gives.
VARIABLES history, parsed

\* Callers of switch_to_revision on one BenchRepo: where each of them is in
\* its call, and whether they take turns.
VARIABLES threads, serialized

hvars == <<repo, branches, known_shas, commits, base_shas, sha_branches,
           table, info, pc>>

wvars == <<obj, cfg, target, tmp, call, failed>>

dvars == <<stdout_line, insertions, deletions>>

lvars == <<history, parsed>>

\* What neither the history reader nor the checkout touches.
ovars == <<stdout_line, insertions, deletions, history, parsed,
           threads, serialized>>

rvars == <<threads, serialized>>

vars == <<repo, branches, known_shas, commits, base_shas, sha_branches,
          table, info, pc, obj, cfg, target, tmp, call, failed,
          stdout_line, insertions, deletions, history, parsed,
          threads, serialized>>

(***************************************************************************)
(* The repository on disk, as `git log --graph --first-parent` shows it.   *)
(***************************************************************************)
Message(sha) == <<"subject", sha>>
Author(sha) == <<"author", sha>>

\* One line of githist.txt cut at '::' (line.split('::', 4)): the graph
\* prefix, then %h, %cd, %s, %an.  Lines of graph decoration carry the
\* prefix only.
CommitLine(r, sha) == <<"*", sha, r.stamp[sha], Message(sha), Author(sha)>>
GraphLine == <<"|">>

RECURSIVE GitLog(_, _)
GitLog(r, sha) ==
    IF sha = None THEN <<>>
    ELSE <<CommitLine(r, sha)>>
         \o (IF r.graph THEN <<GraphLine>> ELSE <<>>)
         \o GitLog(r, r.parent[sha])

githist(r, branch) == GitLog(r, r.heads[branch])

\* The commits of a branch's first-parent log, newest first.
RECURSIVE Chain(_, _)
Chain(r, sha) ==
    IF sha = None THEN <<>> ELSE <<sha>> \o Chain(r, r.parent[sha])

(***************************************************************************)
(* rfc822_to_gmdatetime: the instant in UTC, the zone applied and dropped. *)
(***************************************************************************)
rfc822_to_gmdatetime(stamp) == stamp[1] - stamp[2]

(***************************************************************************)
(* GitRepo._parse_commit_log_branch                                        *)
(***************************************************************************)
\* Mutant: the test for a timestamp already seen is left out.
DuplicateStamp_never(stamp, timestamps) == FALSE

\* `stamp in timestamps`
DuplicateStamp(stamp, timestamps) == stamp \in Range(timestamps)

EmptyParse ==
    [shas |-> <<>>, timestamps |-> <<>>, messages |-> <<>>, authors |-> <<>>,
     base_sha |-> None]

RECURSIVE ParseLines(_, _, _)
ParseLines(lines, known, acc) ==
    IF lines = <<>> THEN acc
    ELSE LET line == Head(lines) IN
         IF line[1] # "*" THEN ParseLines(Tail(lines), known, acc)
         ELSE LET sha == line[2]
                  stamp == rfc822_to_gmdatetime(line[3])
                  message == line[4]
                  author == line[5]
              IN  IF DuplicateStamp(stamp, acc.timestamps)
                  THEN ParseLines(Tail(lines), known, acc)
                  ELSE IF sha \in known
                  THEN [acc EXCEPT !.base_sha = sha]
                  ELSE ParseLines(Tail(lines), known,
                         [acc EXCEPT !.shas = Append(@, sha),
                                     !.timestamps = Append(@, stamp),
                                     !.messages = Append(@, message),
                                     !.authors = Append(@, author)])

\* Mutant: the lists are returned as collected, newest first.
Oldest_first_as_collected(s) == s

\* xs[::-1]
Oldest_first(s) == Reverse(s)

_parse_commit_log_branch(lines, known) ==
    LET acc == ParseLines(lines, known, EmptyParse)
    IN  [entry |-> [shas |-> Oldest_first(acc.shas),
                    messages |-> Oldest_first(acc.messages),
                    timestamps |-> Oldest_first(acc.timestamps),
                    authors |-> Oldest_first(acc.authors)],
         base_sha |-> acc.base_sha]

(***************************************************************************)
(* GitRepo._parse_commit_log: the DataFrame of all collected commits.      *)
(***************************************************************************)
\* Mutant: the branch replaces the branches recorded before.
RECURSIVE AddBranch_overwrites(_, _, _)
AddBranch_overwrites(sb, shas, b) ==
    IF shas = <<>> THEN sb
    ELSE LET sha == Head(shas)
             new == [s \in DOMAIN sb \cup {sha} |->
                       IF s = sha THEN <<b>> ELSE sb[s]]
         IN  AddBranch_overwrites(new, Tail(shas), b)

\* sha_branches[sha] = sha_branches.get(sha, []) + [b], for each sha in turn
RECURSIVE AddBranch(_, _, _)
AddBranch(sb, shas, b) ==
    IF shas = <<>> THEN sb
    ELSE LET sha == Head(shas)
             old == IF sha \in DOMAIN sb THEN sb[sha] ELSE <<>>
             new == [s \in DOMAIN sb \cup {sha} |->
                       IF s = sha THEN Append(old, b) ELSE sb[s]]
         IN  AddBranch(new, Tail(shas), b)

\* DataFrame(dict(column -> concatenation over the branches)).set_index('shas')
Rows(cs) ==
    LET shas == Concat([i \in DOMAIN cs |-> cs[i].shas])
        messages == Concat([i \in DOMAIN cs |-> cs[i].messages])
        timestamps == Concat([i \in DOMAIN cs |-> cs[i].timestamps])
        authors == Concat([i \in DOMAIN cs |-> cs[i].authors])
    IN  [i \in DOMAIN shas |->
           [shas |-> shas[i], messages |-> messages[i],
            timestamps |-> timestamps[i], authors |-> authors[i]]]

RECURSIVE InsertSorted(_, _)
InsertSorted(sorted, row) ==
    IF sorted = <<>> THEN <<row>>
    ELSE IF row.timestamps < Head(sorted).timestamps
         THEN <<row>> \o sorted
         ELSE <<Head(sorted)>> \o InsertSorted(Tail(sorted), row)

RECURSIVE SortFrom(_, _)
SortFrom(rows, sorted) ==
    IF rows = <<>> THEN sorted
    ELSE SortFrom(Tail(rows), InsertSorted(sorted, Head(rows)))

\* Mutant: the table is left in the order of concatenation.
SortByTimestamps_unsorted(rows) == rows

\* commits.sort('timestamps'); rows of equal timestamp keep their order
SortByTimestamps(rows) == SortFrom(rows, <<>>)

Columns == {"messages", "timestamps", "authors"}

DataFrame(cs) == SortByTimestamps(Rows(cs))

\* The repositories of the model: every commit is on the first-parent chain
\* of a branch that is parsed, the commits in use are the first of the pool
\* and the first branch parsed is master (any repository and branch list is
\* one of these up to the names of its commits and branches).
Parents ==
    {p \in [Shas -> Shas \cup {None}] :
        \A s \in Shas : p[s] = None \/ Idx(p[s]) < Idx(s)}

Used(p, h, bl) ==
    UNION {Range(Chain([parent |-> p], h[bl[i]])) : i \in DOMAIN bl}

InUse(p, h, bl) ==
    /\ bl[1] = "master"
    /\ \E k \in 0..MaxCommits : Used(p, h, bl) = {ShaPool[i] : i \in 1..k}
    /\ \A s \in Shas \ Used(p, h, bl) : p[s] = None
    /\ \A b \in BranchNames \ Range(bl) : h[b] = None

HistInit ==
    /\ \E bl \in UNION {[1..n -> BranchNames] : n \in 1..MaxBranches},
          p \in Parents, h \in [BranchNames -> Shas \cup {None}] :
          /\ InUse(p, h, bl)
          /\ branches = bl
          /\ \E st \in [Shas -> RawStamps], g \in BOOLEAN :
                /\ \A s \in Shas \ Used(p, h, bl) : st[s] = <<1, 0>>
                /\ repo = [parent |-> p, stamp |-> st, heads |-> h,
                           graph |-> g]
    /\ known_shas = {}
    /\ commits = <<>>
    /\ base_shas = <<>>
    /\ sha_branches = [s \in {} |-> <<>>]
    /\ table = <<>>
    /\ info = [key |-> None, result |-> [kind |-> "idle"]]
    /\ pc = "parsing"

\* One pass of `for b in branches`; the pass of the last branch goes on to
\* build, index and sort the table and returns.
ParseCommitLog ==
    /\ pc = "parsing"
    /\ LET b == branches[Len(commits) + 1]
           res == _parse_commit_log_branch(githist(repo, b), known_shas)
           shas == res.entry.shas
           cs == Append(commits, res.entry)
       IN  /\ commits' = cs
           /\ base_shas' = Append(base_shas, res.base_sha)
           /\ known_shas' = known_shas \cup Range(shas)
           /\ sha_branches' =
                AddBranch(sha_branches,
                          (IF res.base_sha # None THEN <<res.base_sha>>
                           ELSE <<>>) \o shas, b)
           /\ IF Len(cs) = Len(branches)
              THEN table' = DataFrame(cs) /\ pc' = "built"
              ELSE table' = table /\ pc' = "parsing"
    /\ UNCHANGED <<repo, branches, info>>
    /\ UNCHANGED wvars
    /\ UNCHANGED ovars

(***************************************************************************)
(* GitRepo.get_commit_info                                                 *)
(***************************************************************************)
\* `sha in self.commits`: DataFrame.__contains__ looks the key up among the
\* column labels.
DataFrameContains(df, key) == key \in Columns

Index(df) == {df[i].shas : i \in DOMAIN df}

\* self.commits.ix[sha]: the row labelled sha, KeyError for an unknown label
Ix(df, label) ==
    IF label \in Index(df)
    THEN LET i == CHOOSE j \in DOMAIN df : df[j].shas = label
         IN  [kind |-> "row",
              row |-> [messages |-> df[i].messages,
                       timestamps |-> df[i].timestamps,
                       authors |-> df[i].authors]]
    ELSE [kind |-> "KeyError"]

get_commit_info(df, sha) ==
    IF ~ DataFrameContains(df, sha) THEN [kind |-> "None"] ELSE Ix(df, sha)

QueryKeys == Shas \cup Columns \cup {"0000000"}

\* A lookup in the finished table.  The lookup leaves the table as it is,
\* so one lookup per behaviour covers every lookup.
GetCommitInfo ==
    /\ pc = "built"
    /\ \E sha \in QueryKeys :
          info' = [key |-> sha, result |-> get_commit_info(table, sha)]
    /\ pc' = "looked_up"
    /\ UNCHANGED <<repo, branches, known_shas, commits, base_shas,
                   sha_branches, table>>
    /\ UNCHANGED wvars
    /\ UNCHANGED ovars

(***************************************************************************)
(* GitRepo._parse_commit_log_branch, from the text of githist.txt.         *)
(***************************************************************************)
\* The subject lines of the commits: a text is a sequence of characters and
\* of words that hold no colon.
Subjects == {<<"fix", " ", "bug">>, <<"Foo", ":", ":", "bar">>}

Delimiter == <<":", ":">>

\* %cd and %an as texts; neither holds a '::'.
DateText(stamp) ==
    "00:00:0" \o ToString(stamp[1]) \o " +000" \o ToString(stamp[2])
AuthorName(sha) == "author of " \o sha

\* rfc822.parsedate_tz: the date that a text denotes
parsedate_tz(word) == CHOOSE stamp \in RawStamps : DateText(stamp) = word

\* What `git log --graph --pretty=format:"::%h::%cd::%s::%an"` prints for
\* one commit, without the end of the line.
PrettyLine(c) ==
    <<"*", " ">> \o Delimiter \o <<c.sha>> \o Delimiter
        \o <<DateText(c.date)>> \o Delimiter \o c.subject \o Delimiter
        \o <<c.author>>

\* githist.txt as readlines() gives it: every line but the last ends with
\* '\n', the last one only if the output ends with one; with decoration,
\* a line of the graph follows each commit.
LogLines(h) ==
    Concat([i \in DOMAIN h.entries |->
              <<PrettyLine(h.entries[i])>>
              \o (IF h.graph THEN << <<"|">> >> ELSE <<>>)])

readlines(h) ==
    LET lines == LogLines(h)
    IN  [i \in DOMAIN lines |->
           IF i < Len(lines) \/ h.terminated
           THEN lines[i] \o <<"\n">> ELSE lines[i]]

\* The place of the first '::' in a text, 0 if there is none.
find(text) ==
    LET hits == {i \in 1..(Len(text) - 1) :
                   text[i] = ":" /\ text[i + 1] = ":"}
    IN  IF hits = {} THEN 0
        ELSE CHOOSE i \in hits : \A j \in hits : i <= j

\* text.split('::', maxsplit)
RECURSIVE split_colons(_, _)
split_colons(text, maxsplit) ==
    LET i == find(text)
    IN  IF maxsplit = 0 \/ i = 0 THEN <<text>>
        ELSE <<SubSeq(text, 1, i - 1)>>
             \o split_colons(SubSeq(text, i + 2, Len(text)), maxsplit - 1)

\* rfc822.parsedate_tz gives None for a text that is no date and mktime_tz
\* raises on it.
IsDate(text) ==
    Len(text) = 1 /\ \E stamp \in RawStamps : DateText(stamp) = text[1]

\* The loop over the lines of githist.txt.
RECURSIVE ParseText(_, _, _)
ParseText(lines, known, acc) ==
    IF lines = <<>> THEN [kind |-> "returned", acc |-> acc]
    ELSE LET line == Head(lines) IN
         IF line[1] # "*" THEN ParseText(Tail(lines), known, acc)
         ELSE LET parts == split_colons(line, 4) IN
              IF Len(parts) # 5 THEN [kind |-> "ValueError", acc |-> acc]
              ELSE IF ~ IsDate(parts[3])
              THEN [kind |-> "TypeError", acc |-> acc]
              ELSE LET sha == parts[2]
                       stamp == rfc822_to_gmdatetime(
                                  parsedate_tz(parts[3][1]))
                       message == parts[4]
                       author == parts[5]
                   IN  IF DuplicateStamp(stamp, acc.timestamps)
                       THEN ParseText(Tail(lines), known, acc)
                       ELSE IF sha \in known
                       THEN [kind |-> "returned",
                             acc |-> [acc EXCEPT !.base_sha = sha]]
                       ELSE ParseText(Tail(lines), known,
                              [acc EXCEPT !.shas = Append(@, sha),
                                          !.timestamps = Append(@, stamp),
                                          !.messages = Append(@, message),
                                          !.authors = Append(@, author)])

parse_text(lines, known) ==
    LET r == ParseText(lines, known, EmptyParse)
    IN  [kind |-> r.kind,
         entry |-> [shas |-> Oldest_first(r.acc.shas),
                    messages |-> Oldest_first(r.acc.messages),
                    timestamps |-> Oldest_first(r.acc.timestamps),
                    authors |-> Oldest_first(r.acc.authors)],
         base_sha |-> r.acc.base_sha]

\* The first-parent log of a branch of one to MaxCommits commits, newest
\* first.
LogInit ==
    /\ \E n \in 1..MaxCommits :
          \E dates \in [1..n -> RawStamps], subjects \in [1..n -> Subjects],
             g \in BOOLEAN, t \in BOOLEAN :
             history = [entries |->
                          [i \in 1..n |->
                             [sha |-> ShaPool[i], date |-> dates[i],
                              subject |-> subjects[i],
                              author |-> AuthorName(ShaPool[i])]],
                        graph |-> g, terminated |-> t]
    /\ parsed = [kind |-> "idle"]

LogIdle ==
    /\ history = [entries |-> <<>>, graph |-> FALSE, terminated |-> FALSE]
    /\ parsed = [kind |-> "idle"]

\* _parse_commit_log_branch of the branch with nothing known.
ParseBranch ==
    /\ parsed.kind = "idle"
    /\ parsed' = parse_text(readlines(history), {})
    /\ UNCHANGED history
    /\ UNCHANGED <<hvars, wvars, dvars, rvars>>

(***************************************************************************)
(* GitRepo.diff: the output of `git diff --numstat`, read line by line.    *)
(***************************************************************************)
\* The characters of a line: a digit, a letter and the tab.
Digits == {"3"}
Chars == Digits \cup {"f", "\t"}

\* What stands between two tabs: nothing or one character.
Texts == {<<>>} \cup {<<c>> : c \in Chars \ {"\t"}}

\* '\t'.join(texts)
RECURSIVE join(_)
join(texts) ==
    IF Len(texts) = 1 THEN texts[1]
    ELSE texts[1] \o <<"\t">> \o join(Tail(texts))

\* The lines of at most MaxFields texts, the empty line that follows the
\* last '\n' among them.
DiffLines ==
    {join(texts) : texts \in UNION {[1..n -> Texts] : n \in 1..MaxFields}}

\* text.split(sep): the pieces between the separators, empty ones kept
RECURSIVE split(_, _)
split(text, sep) ==
    IF text = <<>> THEN << <<>> >>
    ELSE LET rest == split(Tail(text), sep)
         IN  IF Head(text) = sep THEN << <<>> >> \o rest
             ELSE << <<Head(text)>> \o Head(rest) >> \o Tail(rest)

DigitValue(c) == IF c = "3" THEN 3 ELSE 0

RECURSIVE Decimal(_)
Decimal(ds) ==
    IF ds = <<>> THEN 0
    ELSE 10 * Decimal(SubSeq(ds, 1, Len(ds) - 1)) + DigitValue(ds[Len(ds)])

\* int(text): an optional sign and at least one digit, ValueError otherwise
int(text) ==
    LET signed == text # <<>> /\ Head(text) = "-"
        body == IF signed THEN Tail(text) ELSE text
    IN  IF body # <<>> /\ \A k \in DOMAIN body : body[k] \in Digits
        THEN [raised |-> FALSE,
              value |-> IF signed THEN 0 - Decimal(body) ELSE Decimal(body)]
        ELSE [raised |-> TRUE, value |-> None]

\* d[key] = value
SetItem(d, key, value) ==
    [k \in DOMAIN d \cup {key} |-> IF k = key THEN value ELSE d[k]]

\* The body of `for line in stdout.split('\n')`: the statements of the try
\* in turn, and whatever one of them raises is passed over.
DiffLine(ins, dels, text) ==
    LET parts == split(text, "\t")
    IN  IF Len(parts) # 3 THEN [insertions |-> ins, deletions |-> dels]
        ELSE LET i == int(parts[1])
                 d == int(parts[2])
                 path == parts[3]
             IN  IF i.raised THEN [insertions |-> ins, deletions |-> dels]
                 ELSE IF d.raised
                 THEN [insertions |-> SetItem(ins, path, i.value),
                       deletions |-> dels]
                 ELSE [insertions |-> SetItem(ins, path, i.value),
                       deletions |-> SetItem(dels, path, d.value)]

\* One pass of the loop of diff over the next line of the output; the
\* output has any number of lines.
Diff ==
    /\ \E text \in DiffLines :
          LET r == DiffLine(insertions, deletions, text)
          IN  /\ stdout_line' = text
              /\ insertions' = r.insertions
              /\ deletions' = r.deletions
    /\ UNCHANGED hvars
    /\ UNCHANGED wvars
    /\ UNCHANGED lvars
    /\ UNCHANGED rvars

DiffInit ==
    /\ stdout_line = <<>>
    /\ insertions = [path \in {} |-> 0]
    /\ deletions = [path \in {} |-> 0]

(***************************************************************************)
(* BenchRepo                                                               *)
(***************************************************************************)
RevPool == <<"11aa", "22bb", "33cc", "44dd">>
Revs == {RevPool[i] : i \in 1..MaxRevs}

\* What a child process can do: exit 0, exit non-zero, or not start at all.
Outcomes == {"ok", "nonzero", "oserror"}

NoDir == [exists |-> FALSE, head |-> None, built |-> None, deps |-> FALSE,
          pyc |-> FALSE]

\* A directory as `git clone` leaves it: the tip of the source checked out.
Tip == RevPool[1]
Cloned == [exists |-> TRUE, head |-> Tip, built |-> None, deps |-> FALSE,
           pyc |-> FALSE]

\* A directory somebody else left in the way.
Foreign == [exists |-> TRUE, head |-> None, built |-> None, deps |-> FALSE,
            pyc |-> TRUE]

FailedToBuildError == "FailedToBuildError"
FailedToBuildMessage == "Failed to build. See stderr in the log for details"

\* vbench.utils.run_cmd.  A process that cannot be started raises; a
\* non-zero exit of clone and checkout is raised as an error to the caller,
\* one of the shell commands (clean, prep, cp, build) is handed back in
\* proc.returncode.
run_cmd(cmd, outcome) ==
    [raised |-> \/ outcome = "oserror"
                \/ outcome = "nonzero" /\ cmd \in {"clone_source", "clone",
                                                   "checkout"},
     returncode |-> IF outcome = "ok" THEN 0 ELSE 1]

\* No command succeeds in a directory that is not there: the shell commands
\* cannot start in it (cwd) and git finds no repository.
Outcome(cmd, drawn, dirs) ==
    IF cmd = "clone_source" THEN drawn
    ELSE IF cmd = "clone"
    THEN (IF dirs.tmp.exists \/ drawn # "ok" THEN drawn ELSE "nonzero")
    ELSE IF dirs.target.exists \/ drawn # "ok" THEN drawn
    ELSE IF cmd = "checkout" THEN "nonzero" ELSE "oserror"

\* The running call: both directories, the commands run so far with their
\* outcomes, and the exception in flight.
Begin(t, m) == [target |-> t, tmp |-> m, trace |-> <<>>, exc |-> None,
                args |-> <<>>]

Raise(st, kind, args) == [st EXCEPT !.exc = kind, !.args = args]

\* Statements in sequence: nothing after a raise is executed.
Then(st, next) == IF st.exc # None THEN st ELSE next

Ran(st, cmd, out) == [st EXCEPT !.trace = Append(@, <<cmd, out>>)]

\* Mutant: a directory in the way is not looked for.
_clone_never_blocked(st, which, rm, drawn) ==
    LET out == Outcome(which, drawn, st)
        proc == run_cmd(which, out)
        after == IF out = "ok" THEN Cloned ELSE NoDir
        st1 == Ran(IF which = "clone_source"
                   THEN [st EXCEPT !.tmp = after]
                   ELSE [st EXCEPT !.target = after], which, out)
    IN  IF proc.raised THEN Raise(st1, "OSError", <<>>) ELSE st1

\* BenchRepo._clone(source, target, rm)
_clone(st, which, rm, drawn) ==
    LET dir == IF which = "clone_source" THEN st.tmp ELSE st.target
        blocked == dir.exists /\ ~ rm
        out == Outcome(which, drawn, st)
        proc == run_cmd(which, out)
        after == IF out = "ok" THEN Cloned ELSE NoDir
        st1 == Ran(IF which = "clone_source"
                   THEN [st EXCEPT !.tmp = after]
                   ELSE [st EXCEPT !.target = after], which, out)
    IN  IF blocked
        THEN Raise(st, "RuntimeError", <<"Target directory already exists">>)
        ELSE IF proc.raised THEN Raise(st1, "OSError", <<>>) ELSE st1

\* BenchRepo._prep
_prep(st, drawn) ==
    LET out == Outcome("prep", drawn, st)
        proc == run_cmd("prep", out)
        st1 == Ran(st, "prep", out)
    IN  IF proc.raised THEN Raise(st1, "OSError", <<>>) ELSE st1

\* BenchRepo._clean_checkout
_clean_checkout(st, drawn) == _clone(st, "clone_source", TRUE, drawn["clone_source"])

\* BenchRepo._copy_repo
_copy_repo(st, drawn) ==
    LET s1 == _clone(st, "clone", TRUE, drawn["clone"])
    IN  Then(s1, _prep(s1, drawn["prep"]))

\* Mutant: the directory is prepared again but not recreated.
hard_clean_only_prep(st, drawn) == _prep(st, drawn["prep"])

\* Mutant: the staging directory is removed once it has been copied.
hard_clean_drops_staging(st, drawn) ==
    LET s1 == _copy_repo(st, drawn)
    IN  [s1 EXCEPT !.tmp = NoDir]

\* BenchRepo.hard_clean
hard_clean(st, drawn) == _copy_repo(st, drawn)

\* Mutant: a clean command that exits non-zero raises.
_clean_raises_on_nonzero(st, c, drawn) ==
    IF ~ c.clean_cmd THEN st
    ELSE LET out == Outcome("clean", drawn["clean"], st)
             st1 == Ran(IF out = "ok"
                        THEN [st EXCEPT !.target.built = None,
                                        !.target.pyc = FALSE]
                        ELSE st, "clean", out)
         IN  IF out # "ok" THEN Raise(st1, "OSError", <<>>) ELSE st1

\* BenchRepo._clean
_clean(st, c, drawn) ==
    IF ~ c.clean_cmd THEN st
    ELSE LET out == Outcome("clean", drawn["clean"], st)
             proc == run_cmd("clean", out)
             st1 == Ran(IF out = "ok"
                        THEN [st EXCEPT !.target.built = None,
                                        !.target.pyc = FALSE]
                        ELSE st, "clean", out)
         IN  IF proc.raised THEN Raise(st1, "OSError", <<>>) ELSE st1

\* Mutant: a failed checkout is passed over.
_checkout_swallows(st, rev, drawn) ==
    LET out == Outcome("checkout", drawn, st)
    IN  Ran(IF out = "ok" THEN [st EXCEPT !.target.head = rev] ELSE st,
            "checkout", out)

\* Mutant: the revision is left out of the checkout command.
_checkout_keeps_head(st, rev, drawn) ==
    LET out == Outcome("checkout", drawn, st)
        proc == run_cmd("checkout", out)
        st1 == Ran(st, "checkout", out)
    IN  IF proc.raised THEN Raise(st1, "OSError", <<>>) ELSE st1

\* BenchRepo._checkout
_checkout(st, rev, drawn) ==
    LET out == Outcome("checkout", drawn, st)
        proc == run_cmd("checkout", out)
        st1 == Ran(IF out = "ok" THEN [st EXCEPT !.target.head = rev] ELSE st,
                   "checkout", out)
    IN  IF proc.raised THEN Raise(st1, "OSError", <<>>) ELSE st1

\* BenchRepo._copy_benchmark_scripts_and_deps
_copy_benchmark_scripts_and_deps(st, drawn) ==
    LET out == Outcome("cp", drawn, st)
        proc == run_cmd("cp", out)
        st1 == Ran(IF out = "ok" THEN [st EXCEPT !.target.deps = TRUE] ELSE st,
                   "cp", out)
    IN  IF proc.raised THEN Raise(st1, "OSError", <<>>) ELSE st1

\* BenchRepo._clean_pyc_files: os.walk of a missing directory yields nothing
\* and a failing unlink is passed over.
_clean_pyc_files(st) ==
    [st EXCEPT !.target.pyc = FALSE, !.trace = Append(@, <<"rm_pyc", "ok">>)]

\* Mutant: proc.returncode is not looked at.
_build_ignores_returncode(st, drawn) ==
    LET out == Outcome("build", drawn, st)
        proc == run_cmd("build", out)
        st1 == Ran(IF out = "ok"
                   THEN [st EXCEPT !.target.built = st.target.head,
                                   !.target.pyc = TRUE]
                   ELSE [st EXCEPT !.target.built = None], "build", out)
    IN  IF proc.raised THEN Raise(st1, "OSError", <<>>) ELSE st1

\* Mutant: a failed build raises a plain RuntimeError.
_build_raises_runtime(st, drawn) ==
    LET out == Outcome("build", drawn, st)
        proc == run_cmd("build", out)
        st1 == Ran(IF out = "ok"
                   THEN [st EXCEPT !.target.built = st.target.head,
                                   !.target.pyc = TRUE]
                   ELSE [st EXCEPT !.target.built = None], "build", out)
    IN  IF proc.raised THEN Raise(st1, "OSError", <<>>)
        ELSE IF proc.returncode # 0
        THEN Raise(st1, "RuntimeError", <<FailedToBuildMessage>>)
        ELSE st1

\* BenchRepo._build
_build(st, drawn) ==
    LET out == Outcome("build", drawn, st)
        proc == run_cmd("build", out)
        st1 == Ran(IF out = "ok"
                   THEN [st EXCEPT !.target.built = st.target.head,
                                   !.target.pyc = TRUE]
                   ELSE [st EXCEPT !.target.built = None], "build", out)
    IN  IF proc.raised THEN Raise(st1, "OSError", <<>>)
        ELSE IF proc.returncode # 0
        THEN Raise(st1, FailedToBuildError, <<FailedToBuildMessage>>)
        ELSE st1

\* Mutant: the build runs before the checkout.
switch_to_revision_build_first(st, c, rev, drawn) ==
    LET s1 == IF c.always_clean THEN hard_clean(st, drawn)
              ELSE _clean(st, c, drawn)
        s2 == Then(s1, _build(s1, drawn["build"]))
        s3 == Then(s2, _checkout(s2, rev, drawn["checkout"]))
        s4 == Then(s3, _copy_benchmark_scripts_and_deps(s3, drawn["cp"]))
    IN  Then(s4, _clean_pyc_files(s4))

\* BenchRepo.switch_to_revision
switch_to_revision(st, c, rev, drawn) ==
    LET s1 == IF c.always_clean THEN hard_clean(st, drawn)
              ELSE _clean(st, c, drawn)
        s2 == Then(s1, _checkout(s1, rev, drawn["checkout"]))
        s3 == Then(s2, _copy_benchmark_scripts_and_deps(s2, drawn["cp"]))
        s4 == Then(s3, _clean_pyc_files(s3))
    IN  Then(s4, _build(s4, drawn["build"]))

\* BenchRepo.__init__
__init__(st, drawn) ==
    LET s1 == _clean_checkout(st, drawn)
    IN  Then(s1, _copy_repo(s1, drawn))

Result(op, rev, st) ==
    [op |-> op, rev |-> rev,
     result |-> IF st.exc = None THEN "returned" ELSE "raised",
     exc |-> st.exc, args |-> st.args, trace |-> st.trace]

Configs == [always_clean : BOOLEAN, clean_cmd : BOOLEAN]

WorkInit ==
    /\ obj = "none"
    /\ cfg = [always_clean |-> FALSE, clean_cmd |-> FALSE]
    /\ target \in {NoDir, Foreign}
    /\ tmp \in {NoDir, Foreign}
    /\ call = [op |-> None, rev |-> None, result |-> None, exc |-> None,
               args |-> <<>>, trace |-> <<>>]
    /\ failed = {}

\* The commands a call of switch_to_revision can come to run
SwitchCommands(c) ==
    (IF c.always_clean THEN {"clone", "prep"}
     ELSE IF c.clean_cmd THEN {"clean"} ELSE {})
    \cup {"checkout", "cp", "build"}

\* BenchRepo(source_url, target_dir, ...): a new object over the directories
Construct ==
    /\ \E c \in Configs,
          drawn \in [{"clone_source", "clone", "prep"} -> Outcomes] :
          LET st == __init__(Begin(target, tmp), drawn)
          IN  /\ cfg' = c
              /\ target' = st.target
              /\ tmp' = st.tmp
              /\ call' = Result("__init__", None, st)
              /\ obj' = IF st.exc = None THEN "active" ELSE "none"
    /\ failed' = {}
    /\ UNCHANGED hvars
    /\ UNCHANGED ovars

SwitchToRevision ==
    /\ obj = "active"
    /\ \E rev \in Revs, drawn \in [SwitchCommands(cfg) -> Outcomes] :
          LET st == switch_to_revision(Begin(target, tmp), cfg, rev, drawn)
          IN  /\ target' = st.target
              /\ tmp' = st.tmp
              /\ call' = Result("switch_to_revision", rev, st)
              /\ failed' = IF st.exc = FailedToBuildError
                           THEN failed \cup {rev} ELSE failed
    /\ UNCHANGED <<obj, cfg>>
    /\ UNCHANGED hvars
    /\ UNCHANGED ovars

HardClean ==
    /\ obj = "active"
    /\ \E drawn \in [{"clone", "prep"} -> Outcomes] :
          LET st == hard_clean(Begin(target, tmp), drawn)
          IN  /\ target' = st.target
              /\ tmp' = st.tmp
              /\ call' = Result("hard_clean", None, st)
    /\ UNCHANGED <<obj, cfg, failed>>
    /\ UNCHANGED hvars
    /\ UNCHANGED ovars

\* BenchRepo._clone(self.target_dir_tmp, self.target_dir, rm) called on the
\* object: the one way to clone with removal disabled, which no method of
\* BenchRepo does.
CloneOp(rm) == IF rm THEN "_clone(rm=True)" ELSE "_clone(rm=False)"

Clone ==
    /\ obj = "active"
    /\ \E rm \in BOOLEAN, drawn \in [{"clone"} -> Outcomes] :
          LET st == _clone(Begin(target, tmp), "clone", rm, drawn["clone"])
          IN  /\ target' = st.target
              /\ tmp' = st.tmp
              /\ call' = Result(CloneOp(rm), None, st)
    /\ UNCHANGED <<obj, cfg, failed>>
    /\ UNCHANGED hvars
    /\ UNCHANGED ovars

(***************************************************************************)
(* Calls of switch_to_revision that overlap: each call runs its statements *)
(* in order, one child process at a time, on the one target_dir.           *)
(***************************************************************************)
Callers == {"first", "second"}

Finished == {"idle", "returned", "raised"}

\* What a statement of switch_to_revision leaves alone.
Elsewhere ==
    /\ UNCHANGED <<obj, cfg, call, failed>>
    /\ UNCHANGED <<hvars, dvars, lvars>>

\* A caller goes into switch_to_revision(rev); callers that take turns
\* wait for the call in progress to end.
Enter(c) ==
    /\ threads[c].at = "idle"
    /\ serialized => \A d \in Callers \ {c} : threads[d].at \in Finished
    /\ threads' = [threads EXCEPT ![c].at = "cleanup"]
    /\ UNCHANGED <<serialized, target, tmp>>
    /\ Elsewhere

\* The statement of caller c is done, with the directories as it left them.
Proceed(c, st, next) ==
    /\ target' = st.target
    /\ tmp' = st.tmp
    /\ threads' = [threads EXCEPT
                     ![c].at = IF st.exc # None THEN "raised" ELSE next]
    /\ UNCHANGED serialized
    /\ Elsewhere

\* if self.always_clean: self.hard_clean() else: self._clean()
Cleanup(c) ==
    /\ threads[c].at = "cleanup"
    /\ \E drawn \in [SwitchCommands(cfg) \ {"checkout", "cp", "build"}
                       -> Outcomes] :
          Proceed(c, IF cfg.always_clean
                     THEN hard_clean(Begin(target, tmp), drawn)
                     ELSE _clean(Begin(target, tmp), cfg, drawn),
                  "checkout")

\* self._checkout(rev)
Checkout(c) ==
    /\ threads[c].at = "checkout"
    /\ \E drawn \in Outcomes :
          Proceed(c, _checkout(Begin(target, tmp), threads[c].rev, drawn),
                  "copy")

\* self._copy_benchmark_scripts_and_deps()
CopyScripts(c) ==
    /\ threads[c].at = "copy"
    /\ \E drawn \in Outcomes :
          Proceed(c, _copy_benchmark_scripts_and_deps(Begin(target, tmp),
                                                      drawn),
                  "clean_pyc")

\* self._clean_pyc_files()
CleanPyc(c) ==
    /\ threads[c].at = "clean_pyc"
    /\ Proceed(c, _clean_pyc_files(Begin(target, tmp)), "build")

\* self._build(): the build command runs on what is checked out now.
Build(c) ==
    /\ threads[c].at = "build"
    /\ \E drawn \in Outcomes :
          LET st == _build(Begin(target, tmp), drawn)
              ran == Outcome("build", drawn, Begin(target, tmp)) # "oserror"
          IN  /\ target' = st.target
              /\ tmp' = st.tmp
              /\ threads' =
                   [threads EXCEPT
                      ![c].at = IF st.exc # None THEN "raised"
                                ELSE "returned",
                      ![c].built_at = IF ran THEN target.head ELSE @]
    /\ UNCHANGED serialized
    /\ Elsewhere

\* Two callers on a constructed BenchRepo, each with a revision to switch
\* to.
RaceInit ==
    /\ obj = "active"
    /\ cfg \in Configs
    /\ target = Cloned
    /\ tmp = Cloned
    /\ call = [op |-> None, rev |-> None, result |-> None, exc |-> None,
               args |-> <<>>, trace |-> <<>>]
    /\ failed = {}
    /\ serialized \in BOOLEAN
    /\ \E revs \in [Callers -> Revs] :
          threads = [c \in Callers |->
                       [rev |-> revs[c], at |-> "idle", built_at |-> None]]

RaceIdle ==
    /\ serialized = TRUE
    /\ threads = [c \in Callers |->
                    [rev |-> None, at |-> "idle", built_at |-> None]]

HistIdle ==
    /\ repo = None
    /\ branches = <<>>
    /\ known_shas = {}
    /\ commits = <<>>
    /\ base_shas = <<>>
    /\ sha_branches = [s \in {} |-> <<>>]
    /\ table = <<>>
    /\ info = [key |-> None, result |-> [kind |-> "idle"]]
    /\ pc = "idle"

WorkIdle ==
    /\ obj = "none"
    /\ cfg = [always_clean |-> FALSE, clean_cmd |-> FALSE]
    /\ target = NoDir
    /\ tmp = NoDir
    /\ call = [op |-> None, rev |-> None, result |-> None, exc |-> None,
               args |-> <<>>, trace |-> <<>>]
    /\ failed = {}

\* The history reader
Init == HistInit /\ WorkIdle /\ DiffInit /\ LogIdle /\ RaceIdle

Next == ParseCommitLog \/ GetCommitInfo

Spec == Init /\ [][Next]_vars

\* The benchmarking checkout
InitWork == HistIdle /\ WorkInit /\ DiffInit /\ LogIdle /\ RaceIdle

NextWork == Construct \/ SwitchToRevision \/ HardClean \/ Clone

SpecWork == InitWork /\ [][NextWork]_vars

\* The reading of a diff
InitDiff == HistIdle /\ WorkIdle /\ DiffInit /\ LogIdle /\ RaceIdle

NextDiff == Diff

SpecDiff == InitDiff /\ [][NextDiff]_vars

\* The parse of the text of one log
InitLog == HistIdle /\ WorkIdle /\ DiffInit /\ LogInit /\ RaceIdle

NextLog == ParseBranch

SpecLog == InitLog /\ [][NextLog]_vars

\* Callers that overlap in switch_to_revision
InitRace == HistIdle /\ DiffInit /\ LogIdle /\ RaceInit

NextRace ==
    \E c \in Callers :
       \/ Enter(c)
       \/ Cleanup(c)
       \/ Checkout(c)
       \/ CopyScripts(c)
       \/ CleanPyc(c)
       \/ Build(c)

SpecRace == InitRace /\ [][NextRace]_vars

(***************************************************************************)
(* Properties of the history reader (Spec)                                 *)
(***************************************************************************)
\* The instant of a commit and the commits of a branch's log, newest first
Gm(sha) == rfc822_to_gmdatetime(repo.stamp[sha])
LogOf(b) == Chain(repo, repo.heads[b])
Members(sha) ==
    IF sha \in DOMAIN sha_branches THEN Range(sha_branches[sha]) ELSE {}
Built == pc \in {"built", "looked_up"}
NewestFirst(log) ==
    \A i, j \in DOMAIN log : i < j => Gm(log[i]) >= Gm(log[j])

\* C1: the table that _parse_commit_log returns is sorted by timestamp
\* ascending and has no sha twice, also when branches share history or a
\* branch is listed twice.
C1_TableSortedUnique ==
    Built =>
      /\ \A i, j \in DOMAIN table :
            i < j => table[i].timestamps <= table[j].timestamps
      /\ \A i, j \in DOMAIN table : i # j => table[i].shas # table[j].shas

\* A table of a later branch that stopped at a known sha, whose rows had to
\* be reordered.
C1_Witness ==
    /\ pc = "built"
    /\ \E k \in DOMAIN base_shas : base_shas[k] # None
    /\ Len(table) >= 2
    /\ table # Rows(commits)

\* C2: with two branches parsed whose logs share a commit, the newest
\* shared commit belongs to both branches and every commit of the second
\* branch newer than it belongs to the second branch only.
C2_SharedAncestorMembership ==
    (Built /\ Len(branches) = 2) =>
      LET log1 == LogOf(branches[1])
          log2 == LogOf(branches[2])
          common == {i \in DOMAIN log2 : log2[i] \in Range(log1)}
      IN  common # {} =>
            LET k == CHOOSE i \in common : \A j \in common : i <= j
            IN  /\ {branches[1], branches[2]} \subseteq Members(log2[k])
                /\ \A i \in 1..(k - 1) : Members(log2[i]) = {branches[2]}

\* C7: of the commits of one log that carry the same timestamp, parsed with
\* nothing known, the first in the log is kept and the others are dropped;
\* a commit whose timestamp is its own is kept.
C7_FirstOfEqualStampsKept ==
    Len(commits) >= 1 =>
      LET log == LogOf(branches[1])
          kept == Range(commits[1].shas)
      IN  \A i \in DOMAIN log :
             (log[i] \in kept) <=>
                (\A j \in 1..(i - 1) : Gm(log[j]) # Gm(log[i]))

\* A first parse of a log with two commits of the same instant, written
\* with different dates, and a third commit whose instant is its own.
C7_Witness ==
    /\ Len(commits) >= 1
    /\ LET log == LogOf(branches[1])
       IN  /\ \E i, j \in DOMAIN log :
                 /\ i < j
                 /\ Gm(log[i]) = Gm(log[j])
                 /\ repo.stamp[log[i]] # repo.stamp[log[j]]
                 /\ log[i] \in Range(commits[1].shas)
                 /\ log[j] \notin Range(commits[1].shas)
           /\ \E i \in DOMAIN log :
                 \A j \in DOMAIN log : j # i => Gm(log[j]) # Gm(log[i])

\* C8 as stated: the list a branch parse returns has timestamps strictly
\* increasing, whatever the log.
C8_StrictlyIncreasing ==
    \A k \in DOMAIN commits :
       \A i, j \in DOMAIN commits[k].timestamps :
          i < j => commits[k].timestamps[i] < commits[k].timestamps[j]

\* C8 amended: the list a branch parse returns has pairwise distinct
\* timestamps, and they are strictly increasing when the timestamps of the
\* log never increase from a newer entry to an older one.
C8_DistinctAndIncreasingIfLogOrdered ==
    \A k \in DOMAIN commits :
       LET ts == commits[k].timestamps
       IN  /\ \A i, j \in DOMAIN ts : i # j => ts[i] # ts[j]
           /\ NewestFirst(LogOf(branches[k])) =>
                 \A i, j \in DOMAIN ts : i < j => ts[i] < ts[j]

\* A parse of a log whose timestamps are out of order, which dropped a
\* repeated timestamp and returned two commits.
C8_Witness ==
    \E k \in DOMAIN commits :
       /\ ~ NewestFirst(LogOf(branches[k]))
       /\ Len(commits[k].shas) >= 2
       /\ Len(commits[k].shas) < Len(LogOf(branches[k]))
       /\ base_shas[k] = None

\* C9: get_commit_info of a sha that is a row of the table returns that
\* commit's timestamp, message and author.
C9_LookupOfRowReturnsRecord ==
    (pc = "looked_up" /\ info.key \in Index(table)) =>
      /\ info.result.kind = "row"
      /\ info.result.row = [messages |-> Message(info.key),
                            timestamps |-> Gm(info.key),
                            authors |-> Author(info.key)]

\* C10: get_commit_info of a string that is no sha of the table, the names
\* of the columns among them, returns None and does not raise.
C10_LookupMissReturnsNone ==
    (pc = "looked_up" /\ info.key \notin Index(table)) =>
      info.result.kind = "None"

\* The shas known when the k-th branch of the list is parsed.
KnownBefore(k) == UNION {Range(commits[j].shas) : j \in 1..(k - 1)}

\* C15: a parse with shas known stops at the newest entry of the log whose
\* sha is known: that sha is the boundary returned, no known sha and no
\* entry older than it is in the list returned, whatever the timestamps.
C15_StopsAtNewestKnown ==
    \A k \in DOMAIN commits :
       LET log == LogOf(branches[k])
           hits == {i \in DOMAIN log : log[i] \in KnownBefore(k)}
       IN  hits # {} =>
             LET f == CHOOSE i \in hits : \A j \in hits : i <= j
             IN  /\ base_shas[k] = log[f]
                 /\ Range(commits[k].shas) \cap KnownBefore(k) = {}
                 /\ Range(commits[k].shas) \subseteq
                       {log[i] : i \in 1..(f - 1)}

\* C19: once the table is built the shas with a membership entry are the
\* shas of the table, and while it is built a sha keeps its entry and every
\* branch name in it.
C19_MembershipCoversTableAndGrows ==
    /\ [](Built => DOMAIN sha_branches = Index(table))
    /\ [][\A s \in DOMAIN sha_branches :
             /\ s \in DOMAIN sha_branches'
             /\ Range(sha_branches[s]) \subseteq Range(sha_branches'[s])]_vars

\* A table of two branches, built, with a boundary commit that belongs to
\* both.
C19_Witness ==
    /\ pc = "built"
    /\ Len(table) >= 2
    /\ \E k \in DOMAIN base_shas :
          /\ base_shas[k] # None
          /\ Cardinality(Members(base_shas[k])) = 2

(***************************************************************************)
(* Properties of the parse of a log text (SpecLog)                         *)
(***************************************************************************)
\* The lines of the log that the parse keeps: the first of each instant.
Kept(entries) ==
    {i \in DOMAIN entries :
        \A j \in 1..(i - 1) :
           rfc822_to_gmdatetime(entries[j].date)
             # rfc822_to_gmdatetime(entries[i].date)}

\* The k-th oldest of the lines kept.
KthOldest(entries, k) ==
    CHOOSE i \in Kept(entries) :
       Cardinality({j \in Kept(entries) : j >= i}) = k

\* C12: the parse of a log with nothing known returns, with no boundary
\* sha, the commits of the log oldest first, each sha together with its own
\* message, timestamp and author.
C12_EachShaWithOwnFields ==
    parsed.kind # "idle" =>
      /\ parsed.kind = "returned"
      /\ parsed.base_sha = None
      /\ Len(parsed.entry.shas) = Cardinality(Kept(history.entries))
      /\ \A k \in DOMAIN parsed.entry.shas :
            LET c == history.entries[KthOldest(history.entries, k)]
            IN  /\ parsed.entry.shas[k] = <<c.sha>>
                /\ parsed.entry.timestamps[k] = rfc822_to_gmdatetime(c.date)
                /\ parsed.entry.messages[k] = c.subject
                /\ parsed.entry.authors[k] = <<c.author>>

(***************************************************************************)
(* Properties of the reading of a diff (SpecDiff)                          *)
(***************************************************************************)
\* A line that is not two integers and a path, cut at the tabs.
Malformed(text) ==
    LET parts == split(text, "\t")
    IN  \/ Len(parts) # 3
        \/ int(parts[1]).raised
        \/ int(parts[2]).raised

\* C13: a malformed line of the diff output changes neither dictionary,
\* and after every line the two dictionaries have the same paths.
C13_MalformedLineIgnored ==
    [][/\ Malformed(stdout_line') =>
             (insertions' = insertions /\ deletions' = deletions)
       /\ DOMAIN insertions' = DOMAIN deletions']_vars

(***************************************************************************)
(* Properties of the benchmarking checkout (SpecWork)                      *)
(***************************************************************************)
Switched == call.op = "switch_to_revision"
RanOk(cmd) == <<cmd, "ok">> \in Range(call.trace)
RanOkIn(trace, cmd) == <<cmd, "ok">> \in Range(trace)
LastRun == IF call.trace = <<>> THEN <<None, None>>
           ELSE call.trace[Len(call.trace)]

C6_UsableAfterBuildFailure ==
    (Switched /\ failed # {} /\ RanOk("checkout") /\ RanOk("build")) =>
      /\ obj = "active"
      /\ call.result = "returned"
      /\ target.exists
      /\ target.head = call.rev
      /\ target.built = call.rev

\* A switch that returned at a revision other than one that failed to
\* build before, in a directory that is not recreated in between.
C6_Witness ==
    /\ Switched
    /\ ~ cfg.always_clean
    /\ call.result = "returned"
    /\ failed # {}
    /\ call.rev \notin failed

\* Every call leaves its name in call.op, so call'.op names the operation
\* that takes a step.
Names(trace) == [i \in DOMAIN trace |-> trace[i][1]]
CleanupRun(c) ==
    IF c.always_clean THEN <<"clone", "prep">>
    ELSE IF c.clean_cmd THEN <<"clean">> ELSE <<>>

C14_StepsInOrder ==
    Switched =>
      /\ call.result = "returned" =>
            Names(call.trace) =
               CleanupRun(cfg) \o <<"checkout", "cp", "rm_pyc", "build">>
      /\ \A i \in DOMAIN call.trace :
            call.trace[i][1] \in {"cp", "build"} =>
               \E j \in 1..(i - 1) : call.trace[j][1] = "checkout"

\* A switch that returned after recreating the directory.
C14_Witness ==
    /\ Switched
    /\ call.result = "returned"
    /\ cfg.always_clean
    /\ call.rev # Tip

\* C16: with always_clean a switch first removes the permanent directory,
\* clones it from staging and runs prep, before the checkout and without
\* the clean command, so that up to the checkout the directory is as
\* cloned and a dependency file in it was copied by this call; hard_clean
\* recreates the directory whatever the configuration.
C16_AlwaysCleanRecreates ==
    /\ (Switched /\ cfg.always_clean) =>
          /\ call.trace # <<>> /\ call.trace[1][1] = "clone"
          /\ "clean" \notin Range(Names(call.trace))
          /\ \A i \in DOMAIN call.trace :
                call.trace[i][1] = "checkout" =>
                   /\ i = 3
                   /\ call.trace[1] = <<"clone", "ok">>
                   /\ call.trace[2][1] = "prep"
          /\ LastRun[1] \in {"clone", "prep"} => target \in {Cloned, NoDir}
          /\ (LastRun[1] = "checkout" /\ LastRun[2] # "ok") => target = Cloned
          /\ target.deps => RanOk("cp")
          /\ target.built \in {None, call.rev}
    /\ (call.op = "hard_clean" /\ call.result = "returned") =>
          /\ target = Cloned
          /\ Names(call.trace) = <<"clone", "prep">>

\* A switch with always_clean after a switch that failed to build, ended by
\* a failed checkout in the directory as cloned.
C16_Witness ==
    /\ Switched
    /\ cfg.always_clean
    /\ failed # {}
    /\ LastRun = <<"checkout", "nonzero">>
    /\ target = Cloned

\* C17: without always_clean a clean command that exits non-zero does not
\* end the switch, which goes on with the checkout and the rest as after a
\* zero exit; with no clean command the switch starts at the checkout.
C17_CleanExitTolerated ==
    (Switched /\ ~ cfg.always_clean) =>
      /\ call.trace # <<>>
      /\ Range(Names(call.trace)) \cap {"clone", "prep"} = {}
      /\ ~ cfg.clean_cmd => call.trace[1][1] = "checkout"
      /\ cfg.clean_cmd =>
            /\ call.trace[1][1] = "clean"
            /\ call.trace[1][2] \in {"ok", "nonzero"} =>
                  (Len(call.trace) >= 2 /\ call.trace[2][1] = "checkout")
            /\ (RanOk("checkout") /\ RanOk("build")) =>
                  /\ call.result = "returned"
                  /\ Names(call.trace) =
                        <<"clean", "checkout", "cp", "rm_pyc", "build">>

\* A switch that returned although its clean command exited non-zero.
C17_Witness ==
    /\ Switched
    /\ ~ cfg.always_clean
    /\ call.trace # <<>>
    /\ call.trace[1] = <<"clean", "nonzero">>
    /\ call.result = "returned"

\* C20: no call of switch_to_revision or hard_clean, returning or raising,
\* changes the staging directory; construction alone writes it.
C20_StagingWrittenOnlyByConstruction ==
    [][call'.op \in {"switch_to_revision", "hard_clean"} => tmp' = tmp]_vars

\* A hard_clean that returned after a failed build, the staging directory
\* as construction cloned it.
C20_Witness ==
    /\ call.op = "hard_clean"
    /\ call.result = "returned"
    /\ failed # {}
    /\ tmp = Cloned

====
